---- MODULE Spec2Model ----
(***************************************************************************)
(* A model of models/prodlda.py: the batch loader built by dataset(), the  *)
(* ProdLDA module (construction and forward), the training loop            *)
(* train_model() and the topic reporter get_topics().                      *)
(*                                                                         *)
(* Tensors are modelled by what the program reads of them: their shape,    *)
(* their rows, and whether their values are finite.  A float loss is a     *)
(* record [fin, val]; a softmax output entry is the fraction num/den.      *)
(***************************************************************************)
EXTENDS Integers, Sequences, FiniteSets, TLC

VARIABLES
    dtm,            \* the document-term matrix handed to dataset()
    train_loader,   \* the DataLoader returned by dataset()
    it,             \* the loader iterator of the running for-loop
    yielded,        \* the items the running iteration has yielded so far
    model,          \* the ProdLDA module: its attributes and training flag
    ctor,           \* the arguments ProdLDA.__init__ was called with
    params,         \* the model parameters: the optimizer steps applied to them
    grad,           \* the .grad buffers: the batches accumulated in them
    pc,             \* the position of train_model
    epochs,         \* train_model's argument
    epoch,          \* the loop variable of `for epoch in range(epochs)`
    losses,         \* train_model's local list
    total,          \* train_model's local counter
    train_losses,   \* train_model's local list of epoch losses
    inputs,         \* the batch of the running loop body
    loss,           \* the loss of the running loop body
    out,            \* the lines printed to standard output
    ops,            \* the calls made so far on the running batch
    epoch_batches,  \* per epoch, the items the loader has yielded in it
    loss_log,       \* the losses the forward passes of the running epoch returned
    fwd,            \* the last direct call of model(inputs) and its result
    topics,         \* the topic-word matrix handed to get_topics()
    cv,             \* the vocabulary cv.get_feature_names() returns
    ret             \* the last call of get_topics() and its result

vars == <<dtm, train_loader, it, yielded, model, ctor, params, grad, pc, epochs,
          epoch, losses, total, train_losses, inputs, loss, out, ops,
          epoch_batches, loss_log, fwd, topics, cv, ret>>

loaderVars == <<train_loader, it, yielded>>
modelVars  == <<model, ctor, params, grad>>
trainVars  == <<pc, epochs, epoch, losses, total, train_losses, inputs, loss,
                out, ops, epoch_batches, loss_log>>
topicVars  == <<topics, cv, ret>>

----------------------------------------------------------------------------
(* Bounds of the model *)

MaxDocs   == 5      \* documents of the matrix a model is trained on
MaxVocab  == 2      \* vocabulary terms of that matrix
MaxRows   == 3      \* rows of the matrices the loader alone is run on
MaxCols   == 2      \* columns of those matrices
MaxBatch  == 3      \* batch_size handed to dataset() and to ProdLDA
MaxTopics == 2      \* num_topics
MaxEpochs == 2      \* epochs handed to train_model
MaxLoss   == 1      \* finite loss values are 0..MaxLoss
MaxWeight == 2      \* softmax numerators are 1..MaxWeight
MaxShift  == 2      \* rotations of the rows of a topic-word matrix
VocabSlack == 1     \* vocabularies have TopN - VocabSlack .. TopN + VocabSlack words

(* Program constants *)

MantissaBits == 24  \* torch.FloatTensor: IEEE-754 binary32 significand
TopN == 10          \* get_topics: topic.argsort()[-10:]

Min(a, b) == IF a < b THEN a ELSE b

----------------------------------------------------------------------------
(* dataset(): torch.FloatTensor, TensorDataset, DataLoader *)

RECURSIVE Ulp(_)
\* The spacing of binary32 values around the non-negative integer n.
Ulp(n) == IF n < 2 ^ MantissaBits THEN 1 ELSE 2 * Ulp(n \div 2)

\* The binary32 value of the non-negative integer n (round to nearest, ties
\* to even), as torch.FloatTensor stores it.
ToFloat32(n) ==
    LET u == Ulp(n)
        q == n \div u
        r == n % u
    IN  IF 2 * r < u THEN q * u
        ELSE IF 2 * r > u THEN (q + 1) * u
        ELSE IF q % 2 = 0 THEN q * u ELSE (q + 1) * u

FloatTensor(m) == [d \in 1..Len(m) |-> [j \in 1..Len(m[d]) |-> ToFloat32(m[d][j])]]

NoLoader == [state |-> "none", X |-> <<>>, Y |-> <<>>, batch_size |-> 0]

\* DataLoader(train_data, batch_size=batch_size): sequential sampler, no
\* shuffling, drop_last=False; a non-positive batch_size is a ValueError.
DataLoader(X, Y, batch_size) ==
    IF batch_size <= 0
    THEN [state |-> "ValueError", X |-> <<>>, Y |-> <<>>, batch_size |-> batch_size]
    ELSE [state |-> "ok", X |-> X, Y |-> Y, batch_size |-> batch_size]

dataset(m, batch_size) ==
    LET X_tensor == FloatTensor(m)
    IN  DataLoader(X_tensor, X_tensor, batch_size)

NoIter == [live |-> FALSE, pos |-> 0, done |-> FALSE]

\* An iterator that goes on where the previous pass stopped.
IterResumes(prev) == [prev EXCEPT !.live = TRUE, !.done = FALSE]

\* iter(train_loader): a fresh pass starts at the first row, whatever the
\* previous pass did.
IterNew(prev) == [live |-> TRUE, pos |-> 0, done |-> FALSE]

\* The test of a loader built with drop_last=True.
IterDropsLast(ld, i) == i.pos + ld.batch_size <= Len(ld.X)

\* Whether next(it) has an item left: drop_last is False, so a shorter last
\* batch counts.
IterHasNext(ld, i) == i.pos < Len(ld.X)

\* next(it): the next batch_size rows (fewer at the end) of both tensors.
IterItem(ld, i) ==
    LET lo == i.pos + 1
        hi == Min(i.pos + ld.batch_size, Len(ld.X))
    IN  <<SubSeq(ld.X, lo, hi), SubSeq(ld.Y, lo, hi)>>

IterAdvance(ld, i) ==
    [i EXCEPT !.pos = Min(i.pos + ld.batch_size, Len(ld.X))]

RECURSIVE Concat(_)
\* torch.cat of a sequence of batches along the row dimension.
Concat(bs) == IF bs = <<>> THEN <<>> ELSE Head(bs) \o Concat(Tail(bs))

----------------------------------------------------------------------------
(* class ProdLDA *)

NoLoss == [fin |-> TRUE, val |-> 0]

NonFinite == [fin |-> FALSE, val |-> 0]

\* The values a loss tensor can hold: a finite number, or inf/nan.
Losses == {[fin |-> TRUE, val |-> v] : v \in 0..MaxLoss} \cup {NonFinite}

\* ProdLDA.__init__ stores its arguments as given; a fresh nn.Module is in
\* training mode.  (vocab_size and num_topics size the layers and are kept
\* positive here; batch_size sizes nothing.)
ProdLDA(vocab_size, num_topics, batch_size) ==
    [state |-> "ok", vocab_size |-> vocab_size, num_topics |-> num_topics,
     batch_size |-> batch_size, training |-> TRUE]

\* nn.BatchNorm1d in training mode refuses a batch of one row ("Expected more
\* than 1 value per channel when training"): posterior_mean_bn is the first.
BatchNormRaises(m, rows) == m.training /\ rows = 1

\* encoder: prior_var = 1 - 1/num_topics is 0 for one topic, and the KL term
\* divides by it and takes its logarithm.
KLFinite(m) == m.num_topics >= 2

\* F.softmax(x, 1) of a matrix given by its numerators exp(x - max): every
\* entry over the sum of its row.
softmax(w) ==
    [b \in 1..Len(w) |->
        LET RECURSIVE RowSum(_)
            RowSum(n) == IF n = 0 THEN 0 ELSE w[b][n] + RowSum(n - 1)
        IN  [v \in 1..Len(w[b]) |-> [num |-> w[b][v], den |-> RowSum(Len(w[b]))]]]

\* decoder: word_dist = softmax(beta_bn(theta @ beta), 1)
decoder(w) == softmax(w)

\* A forward that leaves self.batch_size alone.
KeepBatchSize(m, batch_size) == m

\* forward's bookkeeping: self.batch_size follows the batch.
SetBatchSize(m, batch_size) ==
    IF m.batch_size # batch_size THEN [m EXCEPT !.batch_size = batch_size] ELSE m

\* model(inputs): w are the softmax numerators of the decoder and l the loss
\* value the float arithmetic comes to (both depend on the parameters and on
\* the random draws of reparameterization and dropout).
forward(m, x, w, l) ==
    LET m1 == SetBatchSize(m, Len(x))
    IN  IF BatchNormRaises(m1, Len(x))
        THEN [model |-> m1, state |-> "ValueError", word_dist |-> <<>>,
              loss |-> NoLoss]
        ELSE [model |-> m1, state |-> "ok", word_dist |-> decoder(w),
              loss |-> IF KLFinite(m1) THEN l ELSE NonFinite]

----------------------------------------------------------------------------
(* The state before anything has been called *)

NoModel  == [state |-> "none", vocab_size |-> 0, num_topics |-> 0,
             batch_size |-> 0, training |-> FALSE]
NoCtor   == [vocab_size |-> 0, num_topics |-> 0, batch_size |-> 0]
NoFwd    == [state |-> "none", inputs |-> <<>>, word_dist |-> <<>>, loss |-> NoLoss]
NoRet    == [state |-> "none", num_topics |-> 0, topic_list |-> <<>>]

Blank ==
    /\ train_loader = NoLoader /\ it = NoIter /\ yielded = <<>>
    /\ model = NoModel /\ ctor = NoCtor
    /\ params = [steps |-> 0, last |-> {}]
    /\ grad = {}
    /\ pc = "main" /\ epochs = 0 /\ epoch = 0 /\ losses = <<>> /\ total = 0
    /\ train_losses = <<>> /\ inputs = <<>> /\ loss = NoLoss /\ out = <<>>
    /\ ops = <<>> /\ epoch_batches = <<>> /\ loss_log = <<>>
    /\ fwd = NoFwd /\ ret = NoRet

----------------------------------------------------------------------------
(* The loader on its own: dataset(dtm, batch_size) and passes over it      *)

\* Word counts: a small one and one that binary32 cannot represent.
Counts == {1, 2 ^ MantissaBits + 1}

Matrices ==
    UNION {[1..D -> [1..V -> Counts]] : D \in 1..MaxRows, V \in 1..MaxCols}

InitLoader == dtm \in Matrices /\ topics = <<>> /\ cv = <<>> /\ Blank

\* train_loader = dataset(dtm, batch_size)
CallDataset ==
    /\ train_loader.state = "none"
    /\ \E batch_size \in 0..MaxBatch : train_loader' = dataset(dtm, batch_size)
    /\ UNCHANGED <<dtm, it, yielded, modelVars, trainVars, fwd, topicVars>>

\* it = iter(train_loader), for a first pass or after a finished one
LoaderIter ==
    /\ train_loader.state = "ok"
    /\ ~it.live \/ it.done
    /\ it' = IterNew(it)
    /\ yielded' = <<>>
    /\ UNCHANGED <<dtm, train_loader, modelVars, trainVars, fwd, topicVars>>

\* next(it): the next item, or StopIteration at the end
LoaderNext ==
    /\ it.live /\ ~it.done
    /\ IF IterHasNext(train_loader, it)
       THEN /\ yielded' = Append(yielded, IterItem(train_loader, it))
            /\ it' = IterAdvance(train_loader, it)
       ELSE /\ it' = [it EXCEPT !.done = TRUE]
            /\ UNCHANGED yielded
    /\ UNCHANGED <<dtm, train_loader, modelVars, trainVars, fwd, topicVars>>

NextLoader == CallDataset \/ LoaderIter \/ LoaderNext

SpecLoader == InitLoader /\ [][NextLoader]_vars

Ceil(a, b) == (a + b - 1) \div b

YieldedInputs == [k \in 1..Len(yielded) |-> yielded[k][1]]

\* The batches of a finished pass: ceil(D/B) of them, B rows in each but the
\* last, the rest in the last.
BatchShapes ==
    LET D == Len(dtm)
        B == train_loader.batch_size
        n == Len(yielded)
    IN  /\ n = Ceil(D, B)
        /\ \A k \in 1..(n - 1) : Len(yielded[k][1]) = B
        /\ Len(yielded[n][1]) = D - B * (n - 1)

\* C2 as stated: a finished pass over dataset(dtm, B) yields ceil(D/B) batches
\* of B rows (the last one the remaining rows) whose rows, concatenated in
\* yield order, are the rows of the original matrix dtm.
C2_AsStated ==
    it.done => BatchShapes /\ Concat(YieldedInputs) = dtm

\* C2 as amended: a finished pass over dataset(dtm, B) yields ceil(D/B) batches
\* of B rows (the last one the remaining rows) whose rows, concatenated in
\* yield order, are the rows of dtm converted to 32-bit floats, in the original
\* order; they are the original rows when every entry is a binary32 value.
C2_BatchesRebuildFloatMatrix ==
    it.done =>
        /\ BatchShapes
        /\ Concat(YieldedInputs) = FloatTensor(dtm)
        /\ (\A d \in 1..Len(dtm) : \A j \in 1..Len(dtm[d]) : dtm[d][j] < 2 ^ MantissaBits)
               => Concat(YieldedInputs) = dtm

\* A finished pass with a smaller last batch over a matrix of distinct rows.
C2_Witness ==
    /\ it.done
    /\ Len(yielded) >= 2
    /\ Len(yielded[Len(yielded)][1]) < train_loader.batch_size
    /\ \A d, e \in 1..Len(dtm) : d # e => dtm[d] # dtm[e]

----------------------------------------------------------------------------
(* The program: dataset(), ProdLDA(), train_model()                        *)

\* A document-term matrix of D distinct rows.
DocMatrix(D) == [d \in 1..D |-> [j \in 1..MaxVocab |-> d + j - 1]]

Init ==
    /\ dtm \in {DocMatrix(D) : D \in 1..MaxDocs}
    /\ topics = <<>> /\ cv = <<>> /\ Blank

\* model = ProdLDA(vocab_size, num_topics, batch_size, device)
Construct ==
    /\ model.state = "none"
    /\ \E num_topics \in 1..MaxTopics, batch_size \in (-1)..MaxBatch :
          /\ model' = ProdLDA(Len(dtm[1]), num_topics, batch_size)
          /\ ctor' = [vocab_size |-> Len(dtm[1]), num_topics |-> num_topics,
                      batch_size |-> batch_size]
    /\ UNCHANGED <<dtm, loaderVars, params, grad, trainVars, fwd, topicVars>>

\* train_model(train_loader, model, optimizer, num_topics, epochs, device):
\* model.train(); train_losses = []
TrainModel ==
    /\ pc = "main"
    /\ train_loader.state = "ok"
    /\ model.state = "ok"
    /\ \E e \in (-1)..MaxEpochs : epochs' = e
    /\ model' = [model EXCEPT !.training = TRUE]
    /\ train_losses' = <<>>
    /\ epoch' = 0
    /\ pc' = "for_epoch"
    /\ UNCHANGED <<dtm, loaderVars, ctor, params, grad, losses, total, inputs,
                   loss, out, ops, epoch_batches, loss_log, fwd, topicVars>>

\* A list of losses carried over from the previous epoch.
LossesKept(prev) == prev

\* losses = [] at the head of an epoch
FreshLosses(prev) == <<>>

\* total = 0 at the head of an epoch
FreshTotal(prev) == 0

\* for epoch in range(epochs): losses = []; total = 0; the inner for-loop
\* asks the loader for a new iterator.  An exhausted range returns.
ForEpoch ==
    /\ pc = "for_epoch"
    /\ IF epoch < epochs
       THEN /\ losses' = FreshLosses(losses)
            /\ total' = FreshTotal(total)
            /\ it' = IterNew(it)
            /\ yielded' = <<>>
            /\ loss_log' = <<>>
            /\ pc' = "for_batch"
       ELSE /\ pc' = "done"
            /\ UNCHANGED <<losses, total, it, yielded, loss_log>>
    /\ UNCHANGED <<dtm, train_loader, modelVars, epochs, epoch, train_losses,
                   inputs, loss, out, ops, epoch_batches, fwd, topicVars>>

\* for inputs, _ in train_loader: the next item, or the end of the pass
ForBatch ==
    /\ pc = "for_batch"
    /\ IF IterHasNext(train_loader, it)
       THEN /\ inputs' = IterItem(train_loader, it)[1]
            /\ yielded' = Append(yielded, IterItem(train_loader, it))
            /\ it' = IterAdvance(train_loader, it)
            /\ ops' = <<>>
            /\ pc' = "zero_grad"
            /\ UNCHANGED epoch_batches
       ELSE /\ it' = [it EXCEPT !.done = TRUE]
            /\ epoch_batches' = Append(epoch_batches, yielded)
            /\ pc' = "epoch_end"
            /\ UNCHANGED <<inputs, yielded, ops>>
    /\ UNCHANGED <<dtm, train_loader, modelVars, epochs, epoch, losses, total,
                   train_losses, loss, out, loss_log, fwd, topicVars>>

\* A zero_grad that leaves the buffers as they are.
ZeroGradKeeps(g) == g

\* model.zero_grad() empties the .grad buffers
zero_grad(g) == {}

ZeroGrad ==
    /\ pc = "zero_grad"
    /\ grad' = zero_grad(grad)
    /\ ops' = Append(ops, "zero_grad")
    /\ pc' = "forward"
    /\ UNCHANGED <<dtm, loaderVars, model, ctor, params, epochs, epoch, losses,
                   total, train_losses, inputs, loss, out, epoch_batches,
                   loss_log, fwd, topicVars>>

\* The softmax numerators of a forward pass whose output nobody reads.
Ones(x) == [b \in 1..Len(x) |-> [v \in 1..Len(x[b]) |-> 1]]

\* output, loss = model(inputs); output is dropped, an exception of the
\* forward pass leaves train_model
Forward ==
    /\ pc = "forward"
    /\ \E l \in Losses :
          LET r == forward(model, inputs, Ones(inputs), l)
          IN  /\ model' = r.model
              /\ IF r.state = "ok"
                 THEN /\ loss' = r.loss
                      /\ loss_log' = Append(loss_log, r.loss)
                      /\ ops' = Append(ops, "forward")
                      /\ pc' = "backward"
                 ELSE /\ pc' = "raised"
                      /\ UNCHANGED <<loss, loss_log, ops>>
    /\ UNCHANGED <<dtm, loaderVars, ctor, params, grad, epochs, epoch, losses,
                   total, train_losses, inputs, out, epoch_batches, fwd, topicVars>>

\* loss.backward() adds the gradient of this batch's loss to the buffers
backward(g, batch) == g \cup {batch}

Backward ==
    /\ pc = "backward"
    /\ grad' = backward(grad, <<epoch, total>>)
    /\ ops' = Append(ops, "backward")
    /\ pc' = "step"
    /\ UNCHANGED <<dtm, loaderVars, model, ctor, params, epochs, epoch, losses,
                   total, train_losses, inputs, loss, out, epoch_batches,
                   loss_log, fwd, topicVars>>

\* optimizer.step() updates the parameters from what the buffers hold
OptimizerStep ==
    /\ pc = "step"
    /\ params' = [steps |-> params.steps + 1, last |-> grad]
    /\ ops' = Append(ops, "step")
    /\ pc' = "append"
    /\ UNCHANGED <<dtm, loaderVars, model, ctor, grad, epochs, epoch, losses,
                   total, train_losses, inputs, loss, out, epoch_batches,
                   loss_log, fwd, topicVars>>

\* losses.append(loss); total += 1
AppendLoss ==
    /\ pc = "append"
    /\ losses' = Append(losses, loss)
    /\ total' = total + 1
    /\ pc' = "for_batch"
    /\ UNCHANGED <<dtm, loaderVars, modelVars, epochs, epoch, train_losses,
                   inputs, loss, out, ops, epoch_batches, loss_log, fwd, topicVars>>

RECURSIVE SumLosses(_)
\* sum(losses): one inf or nan makes the sum non-finite
SumLosses(ls) ==
    IF ls = <<>> THEN NoLoss
    ELSE LET h == Head(ls)
             t == SumLosses(Tail(ls))
         IN  IF h.fin /\ t.fin THEN [fin |-> TRUE, val |-> h.val + t.val]
             ELSE NonFinite

\* sum(losses)/total, the fraction num/den
EpochLoss(ls, n) ==
    LET s == SumLosses(ls)
    IN  IF s.fin THEN [fin |-> TRUE, num |-> s.val, den |-> n]
        ELSE [fin |-> FALSE, num |-> 0, den |-> 1]

\* epoch_loss = sum(losses)/total; train_losses.append(epoch_loss);
\* print(f'Epoch {epoch + 1}/{epochs}: Loss={epoch_loss}')
EpochEnd ==
    /\ pc = "epoch_end"
    /\ IF total = 0
       THEN /\ pc' = "raised"
            /\ UNCHANGED <<train_losses, out, epoch>>
       ELSE /\ train_losses' = Append(train_losses, EpochLoss(losses, total))
            /\ out' = Append(out, [epoch |-> epoch + 1, epochs |-> epochs,
                                   Loss |-> EpochLoss(losses, total)])
            /\ epoch' = epoch + 1
            /\ pc' = "for_epoch"
    /\ UNCHANGED <<dtm, loaderVars, modelVars, epochs, losses, total, inputs,
                   loss, ops, epoch_batches, loss_log, fwd, topicVars>>

Next ==
    \/ CallDataset \/ Construct \/ TrainModel \/ ForEpoch \/ ForBatch
    \/ ZeroGrad \/ Forward \/ Backward \/ OptimizerStep \/ AppendLoss
    \/ EpochEnd

Spec == Init /\ [][Next]_vars

----------------------------------------------------------------------------
(* Properties of train_model *)

Running == pc \notin {"main", "done", "raised"}

\* C1: every optimizer step consumes the gradient of exactly one batch, the
\* running one: on each batch the calls are zero_grad, forward, backward and
\* then one step, in this order, and every forward pass that returned is
\* followed by exactly one step before the next batch begins.
C1_StepConsumesOneBatch ==
    /\ pc = "step" => grad = {<<epoch, total>>}
    /\ pc = "append" =>
          /\ ops = <<"zero_grad", "forward", "backward", "step">>
          /\ params.last = {<<epoch, total>>}
    /\ params.steps > 0 => Cardinality(params.last) = 1
    /\ Running =>
          params.steps = epoch * Ceil(Len(dtm), train_loader.batch_size)
                           + (IF pc = "for_epoch" THEN 0 ELSE total)
                           + (IF pc = "append" THEN 1 ELSE 0)

\* A step in a second epoch, after the steps of a first one.
C1_Witness == pc = "append" /\ epoch >= 1 /\ total >= 1 /\ params.steps >= 4

IsPrefix(a, b) == Len(a) <= Len(b) /\ a = SubSeq(b, 1, Len(a))

\* C3: every finished pass over the loader has yielded the same sequence of
\* batches as the first one, the running pass is yielding that sequence
\* again, and the target of every item equals its input.
C3_SameBatchesEveryEpoch ==
    /\ \A e \in 1..Len(epoch_batches) :
          /\ epoch_batches[e] = epoch_batches[1]
          /\ \A k \in 1..Len(epoch_batches[e]) :
                epoch_batches[e][k][2] = epoch_batches[e][k][1]
    /\ epoch_batches # <<>> /\ Running => IsPrefix(yielded, epoch_batches[1])
    /\ \A k \in 1..Len(yielded) : yielded[k][2] = yielded[k][1]

\* Two finished epochs of two batches each, the last batch a smaller one.
C3_Witness ==
    /\ Len(epoch_batches) >= 2
    /\ Len(epoch_batches[2]) >= 2
    /\ Len(epoch_batches[2][2][1]) < Len(epoch_batches[2][1][1])

\* C4 as stated: with epochs >= 1 train_model ends by returning, after
\* epochs * (number of batches) optimizer steps and the lines Epoch 1/epochs
\* ... Epoch epochs/epochs, and never by an exception.
C4_AsStated ==
    (pc # "main" /\ epochs >= 1) =>
        /\ pc # "raised"
        /\ pc = "done" =>
              /\ params.steps = epochs * Ceil(Len(dtm), train_loader.batch_size)
              /\ Len(out) = epochs
              /\ \A i \in 1..Len(out) : out[i].epoch = i /\ out[i].epochs = epochs

\* C6 as stated: a forward pass, an optimizer step or a normal return of
\* train_model happens only with positive num_topics, vocab_size, batch_size
\* and epochs.
C6_AsStated ==
    (pc \in {"backward", "step", "append", "done"} \/ params.steps > 0) =>
        /\ ctor.num_topics > 0 /\ ctor.vocab_size > 0 /\ ctor.batch_size > 0
        /\ epochs > 0

\* C7 as stated: no optimizer step is applied with a non-finite loss, and
\* train_model does not return normally after one.
C7_AsStated ==
    /\ pc = "append" => loss.fin
    /\ pc = "done" => \A i \in 1..Len(train_losses) : train_losses[i].fin

RECURSIVE SumVals(_)
SumVals(ls) == IF ls = <<>> THEN 0 ELSE Head(ls).val + SumVals(Tail(ls))

\* C10: the loss printed at the end of an epoch is the sum of the losses the
\* forward passes of that epoch returned divided by their number (non-finite
\* when one of them is): nothing of an earlier epoch is in it, and every
\* batch counts once.
C10_EpochLossIsMean ==
    (pc = "for_epoch" /\ out # <<>>) =>
        LET line == out[Len(out)]
            fin  == \A k \in 1..Len(loss_log) : loss_log[k].fin
        IN  /\ line.Loss.fin = fin
            /\ fin => /\ line.Loss.num = SumVals(loss_log)
                      /\ line.Loss.den = Len(loss_log)
            /\ line.Loss = train_losses[Len(train_losses)]

\* The line of a second epoch whose two batches differ in size and in loss,
\* after a first epoch with a different loss.
C10_Witness ==
    /\ pc = "for_epoch" /\ Len(out) >= 2
    /\ Len(loss_log) = 2 /\ loss_log[1] # loss_log[2] /\ loss_log[2].fin
    /\ loss_log[1].fin
    /\ out[1].Loss # out[2].Loss
    /\ Len(yielded[2][1]) < Len(yielded[1][1])

----------------------------------------------------------------------------
(* The model on its own: ProdLDA() and direct calls model(inputs)          *)

\* Softmax numerators of a batch: a pattern of 1..MaxWeight over the entries.
Numerators(x, s) ==
    [b \in 1..Len(x) |-> [v \in 1..Len(x[b]) |-> 1 + ((b * s + v) % MaxWeight)]]

\* word_dist, loss = model(inputs) on a batch of the first B documents; the
\* model is in training mode, nothing of the program calls eval().
CallForward ==
    /\ model.state = "ok"
    /\ \E B \in 1..Min(MaxBatch, Len(dtm)), l \in Losses, s \in 0..(MaxWeight - 1) :
          LET x == SubSeq(FloatTensor(dtm), 1, B)
              r == forward(model, x, Numerators(x, s), l)
          IN  /\ model' = r.model
              /\ fwd' = [state |-> r.state, inputs |-> x,
                         word_dist |-> r.word_dist, loss |-> r.loss]
    /\ UNCHANGED <<dtm, loaderVars, ctor, params, grad, trainVars, topicVars>>

NextForward == Construct \/ CallForward

SpecForward == Init /\ [][NextForward]_vars

\* C8: once constructed, the model's vocab_size and num_topics are the
\* constructor's, and after a call of forward its batch_size is the number of
\* rows of the batch of that call, also when the call raised.
C8_AttributesFollowBatch ==
    /\ model.state = "ok" =>
          /\ model.vocab_size = ctor.vocab_size
          /\ model.num_topics = ctor.num_topics
    /\ fwd.state = "none" /\ model.state = "ok" =>
          model.batch_size = ctor.batch_size
    /\ fwd.state # "none" => model.batch_size = Len(fwd.inputs)

\* A forward call that returned, on a batch smaller than the constructor's
\* batch_size.
C8_Witness ==
    /\ fwd.state = "ok"
    /\ Len(fwd.inputs) >= 2
    /\ Len(fwd.inputs) < ctor.batch_size

RECURSIVE SumNum(_)
SumNum(row) == IF row = <<>> THEN 0 ELSE Head(row).num + SumNum(Tail(row))

\* C9 as stated: every forward call on a batch of B documents returns a
\* (B x V) matrix of non-negative entries whose rows sum to 1.
C9_AsStated ==
    fwd.state # "none" =>
        /\ fwd.state = "ok"
        /\ Len(fwd.word_dist) = Len(fwd.inputs)
        /\ \A b \in 1..Len(fwd.word_dist) :
              /\ Len(fwd.word_dist[b]) = model.vocab_size
              /\ \A v \in 1..Len(fwd.word_dist[b]) :
                    fwd.word_dist[b][v].num >= 0 /\ fwd.word_dist[b][v].den > 0
              /\ \A v \in 1..Len(fwd.word_dist[b]) :
                    fwd.word_dist[b][v].den = SumNum(fwd.word_dist[b])

----------------------------------------------------------------------------
(* get_topics(cv, topics, num_topics)                                      *)

Words == <<"a", "b", "c", "d", "e", "f", "g", "h", "i", "j", "k", "l", "m",
           "n", "o", "p", "q", "r", "s", "t", "u", "v", "w", "x", "y", "z">>

Max(a, b) == IF a > b THEN a ELSE b

\* A row of weights over V words: a rotation of 0..V-1, ascending or
\* descending, with its two highest and its two lowest weights tied when ties.
TopicRow(V, shift, ties) ==
    [j \in 1..V |->
        LET r == IF shift % 2 = 0 THEN (j + shift) % V ELSE (shift + 2 * V - j) % V
        IN  IF ties THEN Max(Min(r, V - 2), 1) ELSE r]

TopicMatrices ==
    {[t \in 1..T |-> TopicRow(V, shift + t, ties)] :
        T \in 1..MaxTopics, V \in (TopN - VocabSlack)..(TopN + VocabSlack),
        shift \in 0..MaxShift, ties \in BOOLEAN}

InitTopics ==
    /\ topics \in TopicMatrices
    /\ cv = SubSeq(Words, 1, Len(topics[1]))
    /\ dtm = <<>>
    /\ Blank

RECURSIVE Ascending(_, _)
\* The orders topic.argsort() may return: the indices of S by ascending
\* weight; the order among equal weights is the sort's choice.
Ascending(row, S) ==
    IF S = {} THEN {<<>>}
    ELSE UNION {{<<j>> \o rest : rest \in Ascending(row, S \ {j})} :
                  j \in {i \in S : \A k \in S : row[i] <= row[k]}}

argsort(row) == Ascending(row, DOMAIN row)

\* order[:10]: the first ten, or all of fewer
FirstTen(order) == SubSeq(order, 1, Min(TopN, Len(order)))

\* order[-10:]: the last ten, or all of fewer
LastTen(order) == SubSeq(order, Max(Len(order) - TopN, 0) + 1, Len(order))

\* [cv.get_feature_names()[j] for j in topic.argsort()[-10:]]
TopWords(names, order) ==
    LET top == LastTen(order)
    IN  [i \in 1..Len(top) |-> names[top[i]]]

RECURSIVE TopicLists(_, _, _)
\* The lists the loop over the rows of topics can build, first t rows.
TopicLists(names, rows, t) ==
    IF t = 0 THEN {<<>>}
    ELSE {Append(tl, TopWords(names, order)) :
            tl \in TopicLists(names, rows, t - 1), order \in argsort(rows[t])}

\* get_topics: the lists, then a DataFrame of them with one column name per
\* range(num_topics), which raises unless there are num_topics lists; the
\* lists are returned after the spreadsheet is written.
GetTopics ==
    /\ topics # <<>>
    /\ \E num_topics \in 1..MaxTopics :
       \E topic_list \in TopicLists(cv, topics, Len(topics)) :
          ret' = IF num_topics = Len(topic_list)
                 THEN [state |-> "ok", num_topics |-> num_topics,
                       topic_list |-> topic_list]
                 ELSE [state |-> "ValueError", num_topics |-> num_topics,
                       topic_list |-> <<>>]
    /\ UNCHANGED <<dtm, loaderVars, modelVars, trainVars, fwd, topics, cv>>

NextTopics == GetTopics

SpecTopics == InitTopics /\ [][NextTopics]_vars

IndexOf(word) == CHOOSE j \in 1..Len(cv) : cv[j] = word

\* A list of n words of row t: n distinct vocabulary words, of the n
\* highest-weighted indices of the row, in ascending order of weight.
IsTopList(list, t, n) ==
    /\ Len(list) = n
    /\ \A i \in 1..Len(list) : \E j \in 1..Len(cv) : cv[j] = list[i]
    /\ \A i, k \in 1..Len(list) : i # k => list[i] # list[k]
    /\ \A i \in 1..Len(list) : \A j \in 1..Len(cv) :
          (\A k \in 1..Len(list) : list[k] # cv[j])
              => topics[t][j] <= topics[t][IndexOf(list[i])]
    /\ \A i \in 1..(Len(list) - 1) :
          topics[t][IndexOf(list[i])] <= topics[t][IndexOf(list[i + 1])]
    /\ list # <<>> => \A j \in 1..Len(cv) :
          topics[t][j] <= topics[t][IndexOf(list[Len(list)])]

\* C5 as stated, for the N = 10 of the code: get_topics returns T lists of N
\* words each, the words of the N highest-weighted indices of the row in
\* ascending order of weight, the last one of the highest weight.
C5_AsStated ==
    ret.state = "ok" =>
        /\ Len(ret.topic_list) = Len(topics)
        /\ \A t \in 1..Len(ret.topic_list) : IsTopList(ret.topic_list[t], t, TopN)

\* C5 as amended: N is always 10, and called with num_topics = T get_topics
\* returns T lists of min(10, V) words each, the words of the min(10, V)
\* highest-weighted indices of the row in ascending order of weight, the last
\* one of a highest weight of the row.
C5_TopTenAscending ==
    ret.state = "ok" =>
        /\ Len(ret.topic_list) = Len(topics)
        /\ ret.num_topics = Len(topics)
        /\ \A t \in 1..Len(ret.topic_list) :
              IsTopList(ret.topic_list[t], t, Min(TopN, Len(cv)))

\* Two topics over more than ten words, with tied weights.
C5_Witness ==
    /\ ret.state = "ok"
    /\ Len(ret.topic_list) >= 2
    /\ Len(cv) > TopN
    /\ \E i, j \in 1..Len(cv) : i # j /\ topics[1][i] = topics[1][j]

====
